---- MODULE Spec2Model ----
(***************************************************************************)
(* Basket optimisation (src/basket_optimizer_app.py, optimize_basket).     *)
(*                                                                         *)
(* Prices are integers in cents.  An aggregate that pandas computes by a   *)
(* division (a mean) is an exact rational [num, den]; den = 0 is NaN, the  *)
(* value pandas yields for the mean of nothing.  Floating-point rounding   *)
(* is not modelled.                                                        *)
(*                                                                         *)
(* product_list is the selection handed to optimize_basket.  The code only *)
(* uses it through isin() and len(); st.multiselect returns each option at *)
(* most once, so it is modelled as a set and len() as its cardinality.     *)
(*                                                                         *)
(* The module also holds the selection loop of the terminal program        *)
(* (src/price_prediction_terminal.py, get_user_choice), specified by       *)
(* SpecTerminal; a line of input is a sequence of one-character strings.   *)
(***************************************************************************)
EXTENDS Integers, FiniteSets, Sequences, TLC

(* ---------------------------------------------------------------------- *)
(* Bounds of the model                                                     *)
(* ---------------------------------------------------------------------- *)

\* number of supermarket columns of the price matrix; columns are numbered
\* in the order pandas iterates them (selected_products.columns)
NumSupermarkets == 2

\* rows of the price matrix (price_matrix.index)
Index == {"Milk", "Bread"}

\* identifiers a basket may hold: the rows and one product that is no row
ProductIds == Index \cup {"Eggs"}

\* prices a defined cell of a row may hold, in cents (0.00 is a price)
PriceValues(p) == IF p = "Milk" THEN {100, 120} ELSE {0, 200}

Columns == 1..NumSupermarkets

\* longest options list handed to get_user_choice
MaxOptions == 41

\* longest line the user types at the prompt
MaxInputLen == 2

PenaltyMethods == {"exclude", "average", "highest"}

(* ---------------------------------------------------------------------- *)
(* Values                                                                  *)
(* ---------------------------------------------------------------------- *)

\* an absent cell of the matrix (an empty CSV field read by pd.read_csv)
NaN == -1

Abs(n) == IF n < 0 THEN -n ELSE n

RECURSIVE GCD(_, _)
GCD(a, b) == IF b = 0 THEN a ELSE GCD(b, a % b)

\* the rational n/d in lowest terms, d > 0
Rat(n, d) ==
    LET g == GCD(Abs(n), d) IN [num |-> n \div g, den |-> d \div g]

\* float('nan'): what the mean or the max of no value is
NaNValue == [num |-> 0, den |-> 0]

IsNaN(r) == r.den = 0

FromInt(n) == [num |-> n, den |-> 1]

\* a + b on floats; NaN is absorbing
RAdd(a, b) ==
    IF IsNaN(a) \/ IsNaN(b) THEN NaNValue
    ELSE Rat(a.num * b.den + b.num * a.den, a.den * b.den)

\* k * a for an integer k; NaN is absorbing
RScale(k, a) == IF IsNaN(a) THEN NaNValue ELSE Rat(k * a.num, a.den)

\* a < b on floats; every comparison with NaN is false
RLess(a, b) == ~IsNaN(a) /\ ~IsNaN(b) /\ a.num * b.den < b.num * a.den

RLeq(a, b) == ~IsNaN(a) /\ ~IsNaN(b) /\ a.num * b.den <= b.num * a.den

RECURSIVE RSum(_, _)
\* the sum of f[x] over x in S, f[x] rationals
RSum(S, f) ==
    IF S = {} THEN FromInt(0)
    ELSE LET x == CHOOSE y \in S : TRUE IN RAdd(f[x], RSum(S \ {x}, f))

\* Series.mean() / DataFrame.mean().mean() with skipna: the mean of the
\* values of f over S that are not NaN, NaN when there is none
RMeanSkipNa(S, f) ==
    LET D == {x \in S : ~IsNaN(f[x])}
        t == RSum(D, f)
    IN IF D = {} THEN NaNValue ELSE Rat(t.num, t.den * Cardinality(D))

\* Series.max() with skipna
RMaxSkipNa(S, f) ==
    LET D == {x \in S : ~IsNaN(f[x])}
    IN IF D = {} THEN NaNValue
       ELSE CHOOSE m \in {f[x] : x \in D} : \A x \in D : RLeq(f[x], m)

(* ---------------------------------------------------------------------- *)
(* State                                                                   *)
(* ---------------------------------------------------------------------- *)

VARIABLES
    price_matrix,        \* the cached matrix: row -> column -> cents or NaN
    tie_rank,            \* the build's order among equal sort keys
    pc,                  \* "idle" (awaiting a click) or "returned"
    product_list,        \* arguments of the call that returned
    only_complete,
    penalty_method,
    results_df,          \* returned frame: sequence of rows
    supermarket_details, \* returned dict: recorded column -> details
    gpc,                 \* get_user_choice: "off", "prompt" or "returned"
    options,             \* get_user_choice: the list shown
    page,                \* get_user_choice: index of the page shown
    choice,              \* get_user_choice: the line that made it return
    chosen               \* get_user_choice: <<value returned>>, <<>> before

basketVars == <<price_matrix, tie_rank, pc, product_list, only_complete,
                penalty_method, results_df, supermarket_details>>

terminalVars == <<gpc, options, page, choice, chosen>>

vars == <<basketVars, terminalVars>>

\* the matrices load_data may return: every cell a price or absent
PriceMatrices ==
    [Milk : [Columns -> PriceValues("Milk") \cup {NaN}],
     Bread : [Columns -> PriceValues("Bread") \cup {NaN}]]

TypeOK ==
    /\ price_matrix \in PriceMatrices
    /\ DOMAIN price_matrix = Index
    /\ pc \in {"idle", "returned"}
    /\ product_list \subseteq ProductIds
    /\ only_complete \in BOOLEAN
    /\ penalty_method \in PenaltyMethods
    /\ Len(results_df) = Cardinality(DOMAIN supermarket_details)

(* ---------------------------------------------------------------------- *)
(* optimize_basket                                                         *)
(* ---------------------------------------------------------------------- *)

\* price_matrix.loc[price_matrix.index.isin(product_list)]: the labels of
\* the selected rows
SelectedProducts(pl, pm) == {p \in DOMAIN pm : p \in pl}

\* one cell as a float
Cell(pm, p, s) == IF pm[p][s] = NaN THEN NaNValue ELSE FromInt(pm[p][s])

\* selected_products[supermarket]: the column over the selected rows
Column(pl, pm, s) == [p \in SelectedProducts(pl, pm) |-> Cell(pm, p, s)]

\* .dropna(): the rows of the column that hold a price
Dropna(col) == [p \in {q \in DOMAIN col : ~IsNaN(col[q])} |-> col[p]]

\* selection.mean().mean(): DataFrame.mean() is the mean of each column,
\* the second mean() averages those column means (NaN ones skipped)
AvgProductPrice(pl, pm) ==
    LET sel == SelectedProducts(pl, pm)
        column_means == [s \in Columns |-> RMeanSkipNa(sel, Column(pl, pm, s))]
    IN RMeanSkipNa(Columns, column_means)

\* selection.max().max(): the maximum of the column maxima
MaxPrice(pl, pm) ==
    LET sel == SelectedProducts(pl, pm)
        column_maxima == [s \in Columns |-> RMaxSkipNa(sel, Column(pl, pm, s))]
    IN RMaxSkipNa(Columns, column_maxima)

MissingCountOfSelectedRows(pl, prices) ==
    Cardinality(pl \cap Index) - Cardinality(DOMAIN prices)

\* len(product_list) - len(prices)
MissingCount(pl, prices) == Cardinality(pl) - Cardinality(DOMAIN prices)

SkipIncompleteOffByOne(oc, missing_count) == oc /\ missing_count > 1

SkipIncompleteInverted(oc, missing_count) == ~oc /\ missing_count > 0

\* if only_complete and missing_count > 0: continue
SkipIncomplete(oc, missing_count) == oc /\ missing_count > 0

HasPricesMoreThanOne(prices) == Cardinality(DOMAIN prices) > 1

HasPricesOrNone(prices) == Cardinality(DOMAIN prices) >= 0

HasPricesUnchecked(prices) == TRUE

\* if len(prices) > 0:
HasPrices(prices) == Cardinality(DOMAIN prices) > 0

TotalPenaltyWhateverMethod(prices, missing_count, pmeth, avg, pl, pm) ==
    LET total == RSum(DOMAIN prices, prices)
    IN IF missing_count > 0
       THEN RAdd(total, RScale(missing_count, avg))
       ELSE total

TotalSubtractsPenalty(prices, missing_count, pmeth, avg, pl, pm) ==
    LET total == RSum(DOMAIN prices, prices)
    IN IF missing_count > 0 /\ pmeth = "average"
       THEN RAdd(total, RScale(-missing_count, avg))
       ELSE IF missing_count > 0 /\ pmeth = "highest"
       THEN RAdd(total, RScale(-missing_count, MaxPrice(pl, pm)))
       ELSE total

TotalOwnMaximum(prices, missing_count, pmeth, avg, pl, pm) ==
    LET total == RSum(DOMAIN prices, prices)
    IN IF missing_count > 0 /\ pmeth = "average"
       THEN RAdd(total, RScale(missing_count, avg))
       ELSE IF missing_count > 0 /\ pmeth = "highest"
       THEN RAdd(total, RScale(missing_count, RMaxSkipNa(DOMAIN prices, prices)))
       ELSE total

\* total = prices.sum(), plus the penalty for the missing products
Total(prices, missing_count, pmeth, avg, pl, pm) ==
    LET total == RSum(DOMAIN prices, prices)
    IN IF missing_count > 0 /\ pmeth = "average"
       THEN RAdd(total, RScale(missing_count, avg))
       ELSE IF missing_count > 0 /\ pmeth = "highest"
       THEN RAdd(total, RScale(missing_count, MaxPrice(pl, pm)))
       ELSE total

HasPenaltyWhateverMissing(missing_count, pmeth) == pmeth # "exclude"

\* 'has_penalty': missing_count > 0 and penalty_method != 'exclude'
HasPenalty(missing_count, pmeth) == missing_count > 0 /\ pmeth # "exclude"

\* the loop over selected_products.columns: the dict it fills
SupermarketDetails(pl, pm, oc, pmeth) ==
    LET avg_product_price == AvgProductPrice(pl, pm)
        prices(s) == Dropna(Column(pl, pm, s))
        missing_count(s) == MissingCount(pl, prices(s))
        recorded == {s \in Columns :
                        /\ ~SkipIncomplete(oc, missing_count(s))
                        /\ HasPrices(prices(s))}
    IN [s \in recorded |->
          [total |-> Total(prices(s), missing_count(s), pmeth,
                           avg_product_price, pl, pm),
           available_products |-> Cardinality(DOMAIN prices(s)),
           missing_products |-> missing_count(s),
           products |-> prices(s),
           has_penalty |-> HasPenalty(missing_count(s), pmeth)]]

\* the row of results_df built from one dict item
Row(sm, details) ==
    [supermarket |-> sm,
     total_price |-> details.total,
     available_products |-> details.available_products,
     missing_products |-> details.missing_products]

\* the order sort_values puts two rows in: ascending key, NaN keys last;
\* rows of equal key in the order the build's sort leaves them
Before(a, b, details, rank) ==
    LET ta == details[a].total
        tb == details[b].total
    IN \/ RLess(ta, tb)
       \/ ~IsNaN(ta) /\ IsNaN(tb)
       \/ /\ ~RLess(tb, ta)
          /\ IsNaN(ta) = IsNaN(tb)
          /\ rank[a] < rank[b]

SortValuesDescending(details, rank) ==
    LET keys == DOMAIN details
        place(s) == 1 + Cardinality({t \in keys : Before(s, t, details, rank)})
    IN [i \in 1..Cardinality(keys) |->
          LET s == CHOOSE t \in keys : place(t) = i IN Row(s, details[s])]

\* pd.DataFrame([...]) of the dict items, then, when it has rows,
\* sort_values('total_price').reset_index(drop=True)
SortValues(details, rank) ==
    LET keys == DOMAIN details
        place(s) == 1 + Cardinality({t \in keys : Before(t, s, details, rank)})
    IN [i \in 1..Cardinality(keys) |->
          LET s == CHOOSE t \in keys : place(t) = i IN Row(s, details[s])]

\* the orders a sort may leave equal keys in: sort_values defaults to
\* kind='quicksort', which is not stable, so the order among equal totals
\* is the build's; it is the same on every call of one build
TieRanks == {r \in [Columns -> Columns] : \A a, b \in Columns : r[a] = r[b] => a = b}

Init ==
    /\ price_matrix \in PriceMatrices
    /\ tie_rank \in TieRanks
    /\ pc = "idle"
    /\ product_list = {}
    /\ only_complete = TRUE
    /\ penalty_method = "exclude"
    /\ results_df = <<>>
    /\ supermarket_details = <<>>
    /\ gpc = "off"
    /\ options = <<>>
    /\ page = 0
    /\ choice = <<>>
    /\ chosen = <<>>

optimize_basket_fills_in_place(pl, oc, pmeth) ==
    /\ pc = "idle"
    /\ LET details == SupermarketDetails(pl, price_matrix, oc, pmeth)
       IN /\ supermarket_details' = details
          /\ results_df' = SortValues(details, tie_rank)
    /\ price_matrix' =
          [p \in Index |-> [s \in Columns |->
              IF p \in pl /\ price_matrix[p][s] = NaN
              THEN 0 ELSE price_matrix[p][s]]]
    /\ product_list' = pl
    /\ only_complete' = oc
    /\ penalty_method' = pmeth
    /\ pc' = "returned"
    /\ UNCHANGED <<tie_rank, terminalVars>>

\* one call optimize_basket(pl, price_matrix, oc, pmeth), to its return
optimize_basket(pl, oc, pmeth) ==
    /\ pc = "idle"
    /\ LET details == SupermarketDetails(pl, price_matrix, oc, pmeth)
       IN /\ supermarket_details' = details
          /\ results_df' = SortValues(details, tie_rank)
    /\ product_list' = pl
    /\ only_complete' = oc
    /\ penalty_method' = pmeth
    /\ pc' = "returned"
    /\ UNCHANGED <<price_matrix, tie_rank, terminalVars>>

\* the results are displayed and dropped; the next interaction reruns
\* main() on the cached matrix
Rerun ==
    /\ pc = "returned"
    /\ pc' = "idle"
    /\ product_list' = {}
    /\ only_complete' = TRUE
    /\ penalty_method' = "exclude"
    /\ results_df' = <<>>
    /\ supermarket_details' = <<>>
    /\ UNCHANGED <<price_matrix, tie_rank, terminalVars>>

Next ==
    \/ \E pl \in SUBSET ProductIds, oc \in BOOLEAN, pmeth \in PenaltyMethods :
          optimize_basket(pl, oc, pmeth)
    \/ Rerun

Spec == Init /\ [][Next]_vars

(* ---------------------------------------------------------------------- *)
(* get_user_choice (price_prediction_terminal.py)                          *)
(* ---------------------------------------------------------------------- *)

\* page_size = 20
page_size == 20

Digits == {"0", "1", "2", "3", "4", "5", "6", "7", "8", "9"}

\* the characters a typed line is made of
Chars == Digits \cup {"N", "P", "n", "p", "x", "-", "+", " "}

\* the lines input() may return
Inputs == UNION {[1..k -> Chars] : k \in 0..MaxInputLen}

RECURSIVE Strip(_)
\* str.strip(): leading and trailing blanks removed
Strip(line) ==
    IF line = <<>> THEN line
    ELSE IF Head(line) = " " THEN Strip(Tail(line))
    ELSE IF line[Len(line)] = " " THEN Strip(SubSeq(line, 1, Len(line) - 1))
    ELSE line

\* str.upper()
Upper(line) ==
    [i \in 1..Len(line) |->
        CASE line[i] = "n" -> "N"
          [] line[i] = "p" -> "P"
          [] line[i] = "x" -> "X"
          [] OTHER -> line[i]]

DigitValue(c) ==
    CASE c = "0" -> 0 [] c = "1" -> 1 [] c = "2" -> 2 [] c = "3" -> 3
      [] c = "4" -> 4 [] c = "5" -> 5 [] c = "6" -> 6 [] c = "7" -> 7
      [] c = "8" -> 8 [] c = "9" -> 9

RECURSIVE DigitsValue(_)
DigitsValue(d) ==
    IF d = <<>> THEN 0
    ELSE 10 * DigitsValue(SubSeq(d, 1, Len(d) - 1)) + DigitValue(d[Len(d)])

\* int(choice): an optional sign and at least one digit, else ValueError
ParseInt(line) ==
    LET signed == line # <<>> /\ Head(line) \in {"+", "-"}
        d == IF signed THEN Tail(line) ELSE line
        ok == d # <<>> /\ \A i \in 1..Len(d) : d[i] \in Digits
    IN [ok |-> ok,
        value |-> IF ~ok THEN 0
                  ELSE IF signed /\ Head(line) = "-" THEN -DigitsValue(d)
                  ELSE DigitsValue(d)]

\* end_idx = min(start_idx + page_size, len(options)), start_idx = page * page_size
EndIdx(pg, n) ==
    IF pg * page_size + page_size < n THEN pg * page_size + page_size ELSE n

CanGoNextOffByOne(c, end_idx, n) == c = <<"N">> /\ end_idx <= n

\* choice == 'N' and end_idx < len(options)
CanGoNext(c, end_idx, n) == c = <<"N">> /\ end_idx < n

\* choice == 'P' and page > 0
CanGoPrev(c, pg) == c = <<"P">> /\ pg > 0

\* 0 <= idx < len(options)
ValidIndex(idx, n) == 0 <= idx /\ idx < n

\* the lists the callers pass: n distinct labels, ascending or descending
OptionLists ==
    UNION {{[i \in 1..n |-> i], [i \in 1..n |-> n + 1 - i]} : n \in 0..MaxOptions}

\* the state at the first prompt: page = 0
InitTerminal ==
    /\ price_matrix = [p \in Index |-> [s \in Columns |-> NaN]]
    /\ tie_rank = [s \in Columns |-> s]
    /\ pc = "idle"
    /\ product_list = {}
    /\ only_complete = TRUE
    /\ penalty_method = "exclude"
    /\ results_df = <<>>
    /\ supermarket_details = <<>>
    /\ gpc = "prompt"
    /\ options \in OptionLists
    /\ page = 0
    /\ choice = <<>>
    /\ chosen = <<>>

\* one pass of the while True loop on the typed line: the line is stripped
\* and upper-cased, then N / P turn the page, a valid number returns, and
\* anything else prints an error and prompts again.  The local choice is
\* overwritten before it is next read, so it is kept only at the return.
get_user_choice(line) ==
    /\ gpc = "prompt"
    /\ LET n == Len(options)
           end_idx == EndIdx(page, n)
           c == Upper(Strip(line))
           parsed == ParseInt(c)
           idx == parsed.value - 1
       IN IF CanGoNext(c, end_idx, n)
          THEN /\ page' = page + 1
               /\ UNCHANGED <<gpc, choice, chosen>>
          ELSE IF CanGoPrev(c, page)
          THEN /\ page' = page - 1
               /\ UNCHANGED <<gpc, choice, chosen>>
          ELSE IF parsed.ok /\ ValidIndex(idx, n)
          THEN /\ chosen' = <<options[idx + 1]>>
               /\ choice' = c
               /\ gpc' = "returned"
               /\ UNCHANGED page
          ELSE UNCHANGED <<gpc, page, choice, chosen>>
    /\ UNCHANGED <<options, basketVars>>

NextTerminal == \E line \in Inputs : get_user_choice(line)

SpecTerminal == InitTerminal /\ [][NextTerminal]_vars

(* ---------------------------------------------------------------------- *)
(* Vocabulary of the properties, read off the matrix and the arguments     *)
(* ---------------------------------------------------------------------- *)

Returned == pc = "returned"

\* the basket products with a defined price at supermarket s
Available(s) == {p \in product_list \cap Index : price_matrix[p][s] # NaN}

AvailableCount(s) == Cardinality(Available(s))

RECURSIVE SumCents(_, _)
SumCents(P, s) ==
    IF P = {} THEN 0
    ELSE LET p == CHOOSE q \in P : TRUE
         IN price_matrix[p][s] + SumCents(P \ {p}, s)

\* the sum of the supermarket's defined prices for the basket products
SumAvailable(s) == SumCents(Available(s), s)

\* the supermarkets with a price for every basket product
CompleteMarkets == {s \in Columns : Available(s) = product_list}

\* the supermarkets with at least one but not all of the basket's products
PartialMarkets ==
    {s \in Columns : AvailableCount(s) >= 1
                     /\ AvailableCount(s) < Cardinality(product_list)}

\* the defined cells of the selected rows, as (row, column) pairs
DefinedCells ==
    {c \in (product_list \cap Index) \X Columns : price_matrix[c[1]][c[2]] # NaN}

RECURSIVE SumCells(_)
SumCells(C) ==
    IF C = {} THEN 0
    ELSE LET c == CHOOSE d \in C : TRUE
         IN price_matrix[c[1]][c[2]] + SumCells(C \ {c})

\* the mean over every defined selected cell, flattened
FlattenedMean == Rat(SumCells(DefinedCells), Cardinality(DefinedCells))

RECURSIVE MaxCell(_)
MaxCell(C) ==
    LET c == CHOOSE d \in C : TRUE
        v == price_matrix[c[1]][c[2]]
    IN IF C = {c} THEN v
       ELSE LET m == MaxCell(C \ {c}) IN IF v > m THEN v ELSE m

NonNegativePrices ==
    \A p \in Index, s \in Columns :
        price_matrix[p][s] # NaN => price_matrix[p][s] >= 0

Supermarkets(df) == {df[i].supermarket : i \in 1..Len(df)}

\* matrix {Milk: {A: 1.00, B: 1.20}, Bread: {A: 2.00}}, A and B the first
\* two columns, any further column empty
ExampleMatrix ==
    /\ price_matrix["Milk"][1] = 100
    /\ price_matrix["Milk"][2] = 120
    /\ price_matrix["Bread"][1] = 200
    /\ price_matrix["Bread"][2] = NaN
    /\ \A p \in Index, s \in Columns : s > 2 => price_matrix[p][s] = NaN

ExampleCall == ExampleMatrix /\ product_list = {"Milk", "Bread"}

(* ---------------------------------------------------------------------- *)
(* Properties                                                              *)
(* ---------------------------------------------------------------------- *)

\* C1: with penaltyMethod = average, every returned supermarket that misses
\* products has total = sum(available) + missingCount x the mean over every
\* defined cell of the selected rows (flattened); on the example matrix the
\* penalty base is 1.40, B totals 2.60 and ranks before A (3.00).
C1_FlattenedAveragePenalty ==
    (Returned /\ penalty_method = "average") =>
        /\ \A i \in 1..Len(results_df) :
              results_df[i].missing_products > 0 =>
                 results_df[i].total_price =
                    RAdd(FromInt(SumAvailable(results_df[i].supermarket)),
                         RScale(results_df[i].missing_products, FlattenedMean))
        /\ (ExampleCall /\ ~only_complete) =>
              /\ Len(results_df) = 2
              /\ results_df[1].supermarket = 2
              /\ results_df[1].total_price = FromInt(260)
              /\ results_df[2].supermarket = 1
              /\ results_df[2].total_price = FromInt(300)

\* C2 as stated: with penaltyMethod average or highest, a supermarket with
\* at least one but not all of the basket's products appears in the result
\* even when onlyComplete = true.
C2_IncompleteAppearsDespiteOnlyComplete ==
    (Returned /\ only_complete /\ penalty_method \in {"average", "highest"}) =>
        \A s \in PartialMarkets : s \in Supermarkets(results_df)

\* C2 amended: with penaltyMethod average or highest, onlyComplete is still
\* honoured: when onlyComplete = true no supermarket with at least one but
\* not all of the basket's products appears in the result.
C2_OnlyCompleteHonouredUnderPenalty ==
    (Returned /\ only_complete /\ penalty_method \in {"average", "highest"}) =>
        \A s \in PartialMarkets :
            s \notin Supermarkets(results_df) /\ s \notin DOMAIN supermarket_details

C2_Witness ==
    /\ Returned /\ only_complete /\ penalty_method = "average"
    /\ PartialMarkets # {}
    /\ results_df # <<>>

\* C3: when the selected rows hold no defined cell and penaltyMethod is
\* average or highest, the call's outcome is a distinct signaled condition,
\* distinguishable from an ordinary empty result (empty frame, empty dict).
C3_UndefinedPenaltyBaseSignaled ==
    (Returned /\ penalty_method \in {"average", "highest"} /\ DefinedCells = {}) =>
        ~(results_df = <<>> /\ DOMAIN supermarket_details = {})

\* C4: two returned supermarkets with equal total appear in the order of
\* their columns in the price matrix.
C4_TiesKeepColumnOrder ==
    Returned =>
        \A i, j \in 1..Len(results_df) :
            (i < j /\ results_df[i].total_price = results_df[j].total_price) =>
                results_df[i].supermarket < results_df[j].supermarket

\* C5: the returned sequence is sorted non-decreasing by total.
C5_SortedByTotal ==
    Returned =>
        \A i \in 1..Len(results_df) - 1 :
            RLeq(results_df[i].total_price, results_df[i + 1].total_price)

C5_Witness ==
    /\ Returned
    /\ Len(results_df) >= 2
    /\ results_df[1].supermarket > results_df[2].supermarket
    /\ RLess(results_df[1].total_price, results_df[2].total_price)

\* C6: with onlyComplete = true every returned entry has missingCount = 0.
C6_OnlyCompleteNoMissing ==
    (Returned /\ only_complete) =>
        /\ \A i \in 1..Len(results_df) : results_df[i].missing_products = 0
        /\ \A s \in DOMAIN supermarket_details :
              supermarket_details[s].missing_products = 0

C6_Witness ==
    /\ Returned /\ only_complete
    /\ results_df # <<>>
    /\ \E s \in Columns : AvailableCount(s) = Cardinality(product_list) - 1

\* C7: with onlyComplete = true and a non-empty basket the result holds
\* exactly the supermarkets with a price for every basket product, once
\* each, with total = the sum of its prices for the basket products; on the
\* example matrix the result is exactly [A: 3.00].
C7_ExactlyCompleteMarkets ==
    (Returned /\ only_complete /\ product_list # {}) =>
        /\ Supermarkets(results_df) = CompleteMarkets
        /\ Len(results_df) = Cardinality(CompleteMarkets)
        /\ \A i \in 1..Len(results_df) :
              results_df[i].total_price =
                  FromInt(SumAvailable(results_df[i].supermarket))
        /\ ExampleCall =>
              /\ Len(results_df) = 1
              /\ results_df[1].supermarket = 1
              /\ results_df[1].total_price = FromInt(300)

C7_Witness ==
    /\ Returned /\ only_complete /\ ExampleCall
    /\ Len(results_df) = 1

\* C8: with onlyComplete = true the result (supermarkets, totals, counts,
\* hasPenalty flags, order) is the same for every penaltyMethod.
C8_PenaltyMethodIrrelevantWhenOnlyComplete ==
    (Returned /\ only_complete) =>
        \A m \in PenaltyMethods :
            LET other == SupermarketDetails(product_list, price_matrix, TRUE, m)
            IN /\ supermarket_details = other
               /\ results_df = SortValues(other, tie_rank)

C8_Witness ==
    /\ Returned /\ only_complete /\ penalty_method = "highest"
    /\ results_df # <<>>
    /\ PartialMarkets # {}

\* C9: with penaltyMethod = exclude every returned entry has hasPenalty =
\* false and total = the sum of the supermarket's defined prices for the
\* basket products, whatever its missingCount and onlyComplete.
C9_ExcludeNoPenalty ==
    (Returned /\ penalty_method = "exclude") =>
        /\ \A s \in DOMAIN supermarket_details :
              /\ supermarket_details[s].has_penalty = FALSE
              /\ supermarket_details[s].total = FromInt(SumAvailable(s))
        /\ \A i \in 1..Len(results_df) :
              results_df[i].total_price =
                  FromInt(SumAvailable(results_df[i].supermarket))

C9_Witness ==
    /\ Returned /\ penalty_method = "exclude" /\ ~only_complete
    /\ \E s \in DOMAIN supermarket_details :
          supermarket_details[s].missing_products > 0

\* C10: with onlyComplete = false and non-negative prices, every supermarket
\* with missingCount > 0 has total under average and total under highest
\* each >= its total under exclude, for the same basket and matrix.
C10_PenaltyAtLeastExclude ==
    (Returned /\ ~only_complete /\ NonNegativePrices) =>
        LET total(m, s) ==
              SupermarketDetails(product_list, price_matrix, FALSE, m)[s].total
        IN \A s \in DOMAIN supermarket_details :
              supermarket_details[s].missing_products > 0 =>
                 /\ RLeq(total("exclude", s), total("average", s))
                 /\ RLeq(total("exclude", s), total("highest", s))
                 /\ supermarket_details[s].total = total(penalty_method, s)

C10_Witness ==
    /\ Returned /\ ~only_complete /\ penalty_method = "average"
    /\ \E s \in DOMAIN supermarket_details :
          /\ supermarket_details[s].missing_products > 0
          /\ RLess(FromInt(SumAvailable(s)), supermarket_details[s].total)

\* C11: with penaltyMethod = highest and onlyComplete = false, every
\* supermarket that misses products has total = sum(available) +
\* missingCount x M, M the maximum defined cell over all selected rows and
\* all supermarkets; on the example matrix M = 2.00 and B totals 3.20.
C11_HighestPenaltyGlobalMaximum ==
    (Returned /\ penalty_method = "highest" /\ ~only_complete) =>
        /\ \A s \in DOMAIN supermarket_details :
              supermarket_details[s].missing_products > 0 =>
                 supermarket_details[s].total =
                    FromInt(SumAvailable(s)
                            + supermarket_details[s].missing_products
                              * MaxCell(DefinedCells))
        /\ \A i \in 1..Len(results_df) :
              results_df[i].total_price =
                  supermarket_details[results_df[i].supermarket].total
        /\ ExampleCall =>
              /\ MaxCell(DefinedCells) = 200
              /\ supermarket_details[2].total = FromInt(320)

C11_Witness ==
    /\ Returned /\ penalty_method = "highest" /\ ~only_complete
    /\ \E s \in DOMAIN supermarket_details :
          /\ supermarket_details[s].missing_products > 0
          /\ \E p \in Available(s) : price_matrix[p][s] < MaxCell(DefinedCells)
          /\ \A p \in Available(s) : price_matrix[p][s] < MaxCell(DefinedCells)

\* C12: for an empty basket the call returns an empty result (no entry),
\* for every matrix, onlyComplete and penaltyMethod.
C12_EmptyBasketEmptyResult ==
    (Returned /\ product_list = {}) =>
        results_df = <<>> /\ DOMAIN supermarket_details = {}

C12_Witness ==
    /\ Returned /\ product_list = {}
    /\ ~only_complete /\ penalty_method = "average"
    /\ \E p \in Index, s \in Columns : price_matrix[p][s] # NaN

\* C13: for a non-empty basket and a matrix whose defined cells are
\* non-negative, every returned entry has total >= 0.
C13_TotalsNonNegative ==
    (Returned /\ product_list # {} /\ NonNegativePrices) =>
        /\ \A i \in 1..Len(results_df) :
              RLeq(FromInt(0), results_df[i].total_price)
        /\ \A s \in DOMAIN supermarket_details :
              RLeq(FromInt(0), supermarket_details[s].total)

C13_Witness ==
    /\ Returned /\ product_list # {} /\ ~only_complete
    /\ \E s \in DOMAIN supermarket_details :
          /\ supermarket_details[s].has_penalty
          /\ supermarket_details[s].total = FromInt(0)

\* C14: every returned entry has availableCount + missingCount = |basket|,
\* availableCount the number of basket products with a defined price at the
\* supermarket; a basket product that is no row of the matrix counts as
\* missing for every supermarket and never as available.
C14_CountsAddUpToBasket ==
    Returned =>
        /\ \A i \in 1..Len(results_df) :
              LET r == results_df[i]
              IN /\ r.available_products = AvailableCount(r.supermarket)
                 /\ r.available_products + r.missing_products
                       = Cardinality(product_list)
                 /\ r.missing_products
                       >= Cardinality(product_list \ Index)
        /\ \A s \in DOMAIN supermarket_details :
              /\ DOMAIN supermarket_details[s].products = Available(s)
              /\ supermarket_details[s].available_products
                    + supermarket_details[s].missing_products
                       = Cardinality(product_list)

C14_Witness ==
    /\ Returned
    /\ "Eggs" \in product_list
    /\ \E i \in 1..Len(results_df) :
          /\ results_df[i].available_products = 2
          /\ results_df[i].missing_products = 1

\* C17: a supermarket with no defined price among the selected rows is
\* never recorded: every returned entry has availableCount >= 1, also with
\* onlyComplete = false and penaltyMethod average or highest.
C17_NoEntryWithoutPrices ==
    Returned =>
        /\ \A i \in 1..Len(results_df) :
              /\ results_df[i].available_products >= 1
              /\ AvailableCount(results_df[i].supermarket) >= 1
        /\ \A s \in Columns :
              AvailableCount(s) = 0 => s \notin DOMAIN supermarket_details

C17_Witness ==
    /\ Returned /\ ~only_complete /\ penalty_method = "highest"
    /\ results_df # <<>>
    /\ \E s \in Columns : AvailableCount(s) = 0

\* C18: for every recorded entry hasPenalty holds exactly when missingCount
\* > 0 and penaltyMethod is not exclude, and an entry with hasPenalty false
\* has total = the plain sum of its available prices.
C18_HasPenaltyFlag ==
    Returned =>
        \A s \in DOMAIN supermarket_details :
            LET d == supermarket_details[s]
            IN /\ d.has_penalty <=>
                     (Cardinality(product_list) - AvailableCount(s) > 0
                      /\ penalty_method # "exclude")
               /\ d.has_penalty <=>
                     (d.missing_products > 0 /\ penalty_method # "exclude")
               /\ ~d.has_penalty => d.total = FromInt(SumAvailable(s))

C18_Witness ==
    /\ Returned /\ penalty_method = "average"
    /\ \E s, t \in DOMAIN supermarket_details :
          /\ supermarket_details[s].has_penalty
          /\ ~supermarket_details[t].has_penalty

\* C19: an undefined penalty base never reaches a total: whenever an entry
\* carries a penalty the selected rows hold a defined cell, every recorded
\* total is a defined number, and when no selected cell is defined the
\* result is empty.
C19_UndefinedBaseNeverInTotal ==
    Returned =>
        /\ \A s \in DOMAIN supermarket_details :
              /\ ~IsNaN(supermarket_details[s].total)
              /\ supermarket_details[s].has_penalty => DefinedCells # {}
        /\ \A i \in 1..Len(results_df) : ~IsNaN(results_df[i].total_price)
        /\ DefinedCells = {} =>
              results_df = <<>> /\ DOMAIN supermarket_details = {}

C19_Witness ==
    /\ Returned /\ ~only_complete /\ penalty_method = "average"
    /\ product_list # {}
    /\ DefinedCells = {}
    /\ IsNaN(AvgProductPrice(product_list, price_matrix))
    /\ results_df = <<>>

\* C16: optimize_basket has no side effect on the price matrix: every call,
\* with any arguments, leaves each row, column and cell as it was, so every
\* call of a session sees the matrix that was loaded.
C16_PriceMatrixUnchanged == [][price_matrix' = price_matrix]_vars

C16_Witness ==
    /\ Returned
    /\ ~only_complete /\ penalty_method = "average"
    /\ results_df # <<>>
    /\ \E p \in product_list \cap Index, s \in Columns : price_matrix[p][s] = NaN

\* ceil(len(options) / 20)
PageCount == (Len(options) + 19) \div 20

\* C20: in get_user_choice with a non-empty options list the page index
\* stays within 0 .. ceil(len(options)/20) - 1 and moves only by N to a
\* further page or by P to an earlier one; the function returns only on a
\* line that is an integer k in 1..len(options), with options[k-1] (0-based)
\* as its value; any other line leaves it prompting; options never changes.
C20_ChoiceLoop ==
    /\ [](Len(options) > 0 =>
            /\ page \in 0..(PageCount - 1)
            /\ gpc = "prompt" => chosen = <<>>
            /\ gpc = "returned" =>
                  /\ ParseInt(choice).ok
                  /\ ParseInt(choice).value \in 1..Len(options)
                  /\ chosen = <<options[ParseInt(choice).value]>>)
    /\ [][Len(options) > 0 =>
            /\ options' = options
            /\ page' # page =>
                  /\ gpc' = "prompt"
                  /\ \/ page' = page + 1 /\ page + 1 <= PageCount - 1
                     \/ page' = page - 1 /\ page > 0
            /\ gpc' = "returned" => page' = page]_vars

C20_Witness ==
    /\ gpc = "returned"
    /\ Len(options) = 41
    /\ page = 2
    /\ ParseInt(choice).value = 3
    /\ chosen = <<39>>

====
